---------------------------- MODULE Spec2Model ----------------------------
(***************************************************************************)
(* Model of data/slope/plot_slope_statistics.py: the raster-based plot     *)
(* slope statistics job (spatial index, windowed area-weighted classifier, *)
(* per-group executor with checkpoints, pool dispatch and final merge).    *)
(*                                                                         *)
(* Geometry is exact integer arithmetic.  One model length unit is 1/8 of  *)
(* a raster pixel; plots are axis-aligned rectangles whose coordinates are *)
(* multiples of GRID_SIZE units, so the division of the common extent by   *)
(* grid_size (line 231) is exact, and half-pixel offsets (pixel centres)   *)
(* are whole units.  The raster is north-up with its origin at x = 0,      *)
(* y = RasterTop, and its CRS is taken to be metric, so the UTM            *)
(* reprojection of lines 440-449 and 539 is the identity on areas.  One    *)
(* unit is at least 0.1 m, so an area is above the 0.01 m2 noise floor of  *)
(* line 546 exactly when it is at least one square unit.                   *)
(*                                                                         *)
(* Specifications: Spec (the job), SpecRestart (the job run again),        *)
(* SpecGroup (one worker inside process_spatial_group), SpecClassify       *)
(* (single classifier calls), SpecCalls (single calls of the class tests,  *)
(* get_valid_window, calculate_ewma and create_region_aggregated_stats)    *)
(* and SpecProgress (the progress trackers of the pool's processes).       *)
(***************************************************************************)
EXTENDS Integers, Sequences, FiniteSets, TLC

(***************************************************************************)
(* Program constants                                                       *)
(***************************************************************************)
GRID_SIZE == 4
SAVE_INTERVAL == 300
SAVE_EVERY == 100
DEBUG_PLOT_ID == 7589461
INDEX_BUFFER_PIXELS == 2
WINDOW_BUFFER_PIXELS == 10

\* SLOPE_CLASSES, lines 81-86; float('inf') is the unbounded flag
SLOPE_CLASSES ==
    << [min_slope |-> 10, max_slope |-> 20, unbounded |-> FALSE, key |-> "pct_slope_10_20"],
       [min_slope |-> 20, max_slope |-> 25, unbounded |-> FALSE, key |-> "pct_slope_20_25"],
       [min_slope |-> 25, max_slope |-> 35, unbounded |-> FALSE, key |-> "pct_slope_25_35"],
       [min_slope |-> 35, max_slope |-> 35, unbounded |-> TRUE,  key |-> "pct_slope_35_inf"] >>

ClassKeys == { SLOPE_CLASSES[i].key : i \in 1..Len(SLOPE_CLASSES) }

(***************************************************************************)
(* Bounds of the model and the input raster                                *)
(***************************************************************************)
PIXEL == 8               \* units per raster pixel (src.transform.a, -src.transform.e)
RasterCols == 24
RasterRows == 8
NODATA == -9999          \* src.nodata of the input raster

RasterRight == RasterCols * PIXEL
RasterTop == RasterRows * PIXEL

(***************************************************************************)
(* Arithmetic helpers                                                      *)
(***************************************************************************)
Max(a, b) == IF a >= b THEN a ELSE b
Min(a, b) == IF a <= b THEN a ELSE b

\* Python int(a / b) for b > 0: truncation toward zero
Trunc(a, b) == IF a >= 0 THEN a \div b ELSE -((-a) \div b)

\* round(a / b) to the nearest integer, ties to even (numpy/Python round), b > 0, a >= 0
RoundHalfEven(a, b) ==
    LET q == a \div b
        r == a % b
    IN  IF 2 * r < b THEN q
        ELSE IF 2 * r > b THEN q + 1
        ELSE IF q % 2 = 0 THEN q ELSE q + 1

Range(q) == { q[i] : i \in 1..Len(q) }

RECURSIVE SumOver(_, _)
SumOver(S, f) ==
    IF S = {} THEN 0
    ELSE LET x == CHOOSE y \in S : TRUE
         IN  f[x] + SumOver(S \ {x}, f)

(***************************************************************************)
(* Rectangles: [x0, y0, x1, y1] with x0 <= x1, y0 <= y1                    *)
(***************************************************************************)
Rect(x0, y0, x1, y1) == [x0 |-> x0, y0 |-> y0, x1 |-> x1, y1 |-> y1]

\* shapely box(minx, miny, maxx, maxy): the rectangle spanned by the two corners
box(xa, ya, xb, yb) == Rect(Min(xa, xb), Min(ya, yb), Max(xa, xb), Max(ya, yb))

RectArea(r) == (r.x1 - r.x0) * (r.y1 - r.y0)

\* shapely intersects on closed rectangles: a shared edge or corner counts
RectIntersects(a, b) ==
    /\ a.x0 <= b.x1 /\ b.x0 <= a.x1
    /\ a.y0 <= b.y1 /\ b.y0 <= a.y1

\* area of a.intersection(b)
IntersectionArea(a, b) ==
    LET w == Min(a.x1, b.x1) - Max(a.x0, b.x0)
        h == Min(a.y1, b.y1) - Max(a.y0, b.y0)
    IN  IF w > 0 /\ h > 0 THEN w * h ELSE 0


(***************************************************************************)
(* State                                                                   *)
(***************************************************************************)
VARIABLES
    slope_raster,       \* the raster file the job is given (RasterData reads its band)
    \* --- the job (Spec)
    plots,              \* the input plots, position i holds index label i - 1
    has_id,             \* whether the plots file has an 'id' column
    src_count,          \* number of bands of the raster file
    out_writable,       \* whether OUTPUT_DIR can be written
    pc,                 \* where main is
    ci, cj,             \* loop indices i, j of create_spatial_index
    processed_plots,    \* labels claimed so far by create_spatial_index
    spatial_groups,     \* the groups built so far: [plots, bounds]
    task,               \* per group task: "pending", "running", "done"
    all_results,        \* main's all_results
    result,             \* <<>> or <<the final merged frame>>
    progress_files,     \* OUTPUT_DIR/group_<g>_in_progress.fgb, per g
    complete_files,     \* OUTPUT_DIR/group_<g>_complete.fgb, per g
    run,                \* 1 for the first start of the job, +1 per restart
    complete_at_start,  \* history: groups holding a complete file when this run began
    classified,         \* history: labels handed to the classifier in this run
    \* --- classifier calls (SpecClassify)
    cl_plot,            \* plot geometry handed to the classifier
    cl_bounds,          \* bounds handed to the classifier
    cl_stats,           \* <<>> before the call, <<stats>> after it
    \* --- one worker inside process_spatial_group (SpecGroup)
    grp,                \* the locals of process_spatial_group
    \* --- calls of the pure functions (SpecCalls)
    call,               \* [op, args, out]: out is <<>> before the call returns
    \* --- progress reporting of the pool's worker processes (SpecProgress)
    prog                \* clock, the progress_tracker of each process, the reports printed

(***************************************************************************)
(* Raster Window Reader                                                    *)
(***************************************************************************)
\* rasterio.windows.from_bounds under the north-up transform, in pixels * PIXEL
\* (col_off, row_off, width and height are kept as numerators over PIXEL)
from_bounds(left, bottom, right, top) ==
    [col_off |-> left, row_off |-> RasterTop - top,
     width |-> right - left, height |-> top - bottom]

\* a window whose width and height are not forced up to 1
get_valid_window_NoFloor(bounds, src_shape) ==
    LET buffer_size == PIXEL * WINDOW_BUFFER_PIXELS
        window == from_bounds(bounds[1] - buffer_size, bounds[2] - buffer_size,
                              bounds[3] + buffer_size, bounds[4] + buffer_size)
        col_start == Max(0, Trunc(window.col_off - PIXEL, PIXEL))
        row_start == Max(0, Trunc(window.row_off - PIXEL, PIXEL))
        col_stop == Min(src_shape[2],
                        Trunc(window.col_off + window.width + 2 * PIXEL, PIXEL))
        row_stop == Min(src_shape[1],
                        Trunc(window.row_off + window.height + 2 * PIXEL, PIXEL))
    IN  [col_off |-> col_start, row_off |-> row_start,
         width |-> col_stop - col_start, height |-> row_stop - row_start]

\* get_valid_window, lines 276-307.  bounds = <<minx, miny, maxx, maxy>>;
\* src_shape = <<rows, cols>>.  Returns the window; its transform is
\* WindowOrigin below.
get_valid_window(bounds, src_shape) ==
    LET buffer_size == PIXEL * WINDOW_BUFFER_PIXELS
        window == from_bounds(bounds[1] - buffer_size, bounds[2] - buffer_size,
                              bounds[3] + buffer_size, bounds[4] + buffer_size)
        col_start == Max(0, Trunc(window.col_off - PIXEL, PIXEL))
        row_start == Max(0, Trunc(window.row_off - PIXEL, PIXEL))
        col_stop == Min(src_shape[2],
                        Trunc(window.col_off + window.width + 2 * PIXEL, PIXEL))
        row_stop == Min(src_shape[1],
                        Trunc(window.row_off + window.height + 2 * PIXEL, PIXEL))
        width == Max(1, col_stop - col_start)
        height == Max(1, row_stop - row_start)
    IN  [col_off |-> col_start, row_off |-> row_start,
         width |-> width, height |-> height]

\* rasterio.windows.transform(valid_window, src_transform): the world
\* coordinates of the window's upper-left corner
WindowOrigin(window) ==
    [x |-> window.col_off * PIXEL, y |-> RasterTop - window.row_off * PIXEL]

\* src.read(1, window=window), lines 481: the window's cells that exist in
\* the raster, as window-relative <<row, col>> (a window off the raster
\* reads an empty array)
ReadWindow(window, src_shape) ==
    { rc \in (0..(window.height - 1)) \X (0..(window.width - 1)) :
        /\ window.row_off + rc[1] < src_shape[1]
        /\ window.col_off + rc[2] < src_shape[2] }

\* footprint of window cell <<row, col>> under the window transform
CellFootprint(window, rc) ==
    LET o == WindowOrigin(window)
    IN  Rect(o.x + rc[2] * PIXEL, o.y - (rc[1] + 1) * PIXEL,
             o.x + (rc[2] + 1) * PIXEL, o.y - rc[1] * PIXEL)

\* rasterio.transform.xy(window_transform, row, col): offset='center'
xy(window, row, col) ==
    LET o == WindowOrigin(window)
    IN  [x |-> o.x + col * PIXEL + PIXEL \div 2,
         y |-> o.y - row * PIXEL - PIXEL \div 2]

\* pixel_geom of lines 534-536
pixel_geom(window, rc) ==
    LET pixel_bounds == xy(window, rc[1], rc[2])
        pixel_bounds2 == xy(window, rc[1] + 1, rc[2] + 1)
    IN  box(pixel_bounds.x, pixel_bounds.y, pixel_bounds2.x, pixel_bounds2.y)

\* geometry_mask(..., invert=True, all_touched=True) on the plot buffered by
\* a tenth of a pixel (lines 474-503): a cell is selected when its footprint
\* meets the buffered plot, i.e. when it meets the closed plot rectangle
geometry_mask(plot_geom, window, rc) ==
    RectIntersects(plot_geom, CellFootprint(window, rc))

(***************************************************************************)
(* Area-Weighted Classifier                                                *)
(***************************************************************************)
\* a class test that also takes the upper bound
InClass_Closed(v, c) == v >= c.min_slope /\ (c.unbounded \/ v <= c.max_slope)

\* a class test that leaves the lower bound out
InClass_OpenLow(v, c) == v > c.min_slope /\ (c.unbounded \/ v < c.max_slope)

InClass(v, c) == v >= c.min_slope /\ (c.unbounded \/ v < c.max_slope)

\* percentages are held in hundredths of a percent: round(x, 2) * 100
Pct(area, total_area) == RoundHalfEven(10000 * area, total_area)

ZeroClasses == [k \in ClassKeys |-> 0]

\* an early return that keeps the data flag set
NoDataStats_Flagged(plot_area) ==
    [shape_area_m2 |-> plot_area, has_slope_data |-> TRUE] @@ ZeroClasses

\* the early returns of lines 489-493, 510-515 and 566-570
NoDataStats(plot_area) ==
    [shape_area_m2 |-> plot_area, has_slope_data |-> FALSE] @@ ZeroClasses

\* the except branch, lines 644-652
ErrorStats ==
    [shape_area_m2 |-> 0, has_slope_data |-> FALSE] @@ ZeroClasses

\* lines 572-620 for the kept cells
DataStats(plot_area, kept, pixel_areas, pixel_slopes) ==
    LET total_area == SumOver(kept, pixel_areas)
        class_pct == [k \in ClassKeys |->
            LET c == CHOOSE c \in { SLOPE_CLASSES[i] : i \in 1..Len(SLOPE_CLASSES) } :
                        c.key = k
                class_mask == { rc \in kept : InClass(pixel_slopes[rc], c) }
            IN  Pct(SumOver(class_mask, pixel_areas), total_area)]
        min_classification == SLOPE_CLASSES[1].min_slope
        below_min_mask == { rc \in kept : pixel_slopes[rc] < min_classification }
    IN  [shape_area_m2 |-> plot_area, has_slope_data |-> TRUE]
        @@ class_pct
        @@ [pct_slope_below_min |-> Pct(SumOver(below_min_mask, pixel_areas), total_area)]

\* the cells kept by lines 517-549: valid, selected by the mask, and with an
\* intersection of pixel_geom and the plot above the noise floor
KeptCells(plot_geom, window, slope_data, src_shape) ==
    { rc \in ReadWindow(window, src_shape) :
        /\ geometry_mask(plot_geom, window, rc)
        /\ slope_data[<<window.row_off + rc[1], window.col_off + rc[2]>>] # NODATA
        /\ IntersectionArea(plot_geom, pixel_geom(window, rc)) >= 1 }

\* calculate_plot_statistics_windowed, lines 417-654.  plot_geom.bad marks a
\* geometry on which the body raises (empty geometry, failed reprojection);
\* for the debug plot, np.min of an empty read (line 485) raises as well
calculate_plot_statistics_windowed(plot_geom, slope_data, bounds, plot_id) ==
    IF plot_geom.bad THEN ErrorStats
    ELSE IF /\ plot_id = DEBUG_PLOT_ID
            /\ ReadWindow(get_valid_window(bounds, <<RasterRows, RasterCols>>),
                          <<RasterRows, RasterCols>>) = {}
         THEN ErrorStats
    ELSE
    LET src_shape == <<RasterRows, RasterCols>>
        plot_area == RectArea(plot_geom)
        window == get_valid_window(bounds, src_shape)
        kept == KeptCells(plot_geom, window, slope_data, src_shape)
        pixel_areas == [rc \in kept |-> IntersectionArea(plot_geom, pixel_geom(window, rc))]
        pixel_slopes == [rc \in kept |->
                            slope_data[<<window.row_off + rc[1], window.col_off + rc[2]>>]]
    IN  IF ReadWindow(window, src_shape) = {} THEN NoDataStats(plot_area)
        ELSE IF kept = {} THEN NoDataStats(plot_area)
        ELSE DataStats(plot_area, kept, pixel_areas, pixel_slopes)


(***************************************************************************)
(* Data frames: a frame is a sequence of rows in index order; a row holds  *)
(* its index label, its values per statistics column, and the columns      *)
(* whose value is NaN (the value kept for a NaN column is the default)     *)
(***************************************************************************)
Fill(col) == IF col = "has_slope_data" THEN FALSE ELSE 0

\* pd.DataFrame(results).columns: the union of the records' keys
Columns(results) == UNION { DOMAIN results[i] : i \in 1..Len(results) }

\* frame[col] = stats_df[col] for every col in cols (lines 696-700, 855-856,
\* 1079-1081): pandas aligns the assigned series on the frame's index
\* LABELS.  stats_df has the labels 0..len(results)-1; a frame row whose
\* label is not among them gets NaN in every column.  filled: fillna was
\* applied to the series before the assignment (save_group_progress).
AssignColumns(labels, results, cols, filled) ==
    [i \in 1..Len(labels) |->
        LET lbl == labels[i]
        IN  IF lbl + 1 \in 1..Len(results)
            THEN LET rec == results[lbl + 1]
                 IN  [label |-> lbl,
                      stats |-> [c \in cols |-> IF c \in DOMAIN rec THEN rec[c] ELSE Fill(c)],
                      nan   |-> IF filled THEN {} ELSE cols \ DOMAIN rec]
            ELSE [label |-> lbl,
                  stats |-> [c \in cols |-> Fill(c)],
                  nan   |-> cols]]

\* frame.iloc[:n]
iloc(labels, n) == SubSeq(labels, 1, Min(n, Len(labels)))

(***************************************************************************)
(* Parallel Group Executor                                                 *)
(***************************************************************************)
\* the zeroed record of lines 835-840 and 893-898
ZeroRecord ==
    [shape_area_m2 |-> 0, has_slope_data |-> FALSE, processing_time |-> 0] @@ ZeroClasses

\* save_group_progress, lines 656-749.  file is <<>> (no file) or <<frame>>.
\* write_ok: whether temp_result.to_file succeeds.  When it fails, the
\* handler of line 712 evaluates traceback.format_exc(), and the module
\* never imports traceback at module level (the imports of lines 272, 646
\* and 1115 are local to other functions): NameError, caught at line 747,
\* whose handler raises NameError again at line 749, out of the function.
save_group_progress(plots_group, results, file, write_ok) ==
    IF results = <<>> THEN [file |-> file, raised |-> FALSE]
    ELSE LET temp_result ==
                 AssignColumns(iloc(plots_group, Len(results)), results,
                               Columns(results), TRUE)
         IN  IF write_ok THEN [file |-> <<temp_result>>, raised |-> FALSE]
             ELSE [file |-> file, raised |-> TRUE]

\* local state of process_spatial_group at entry, lines 755-760.  pos is
\* the number of rows iterrows has yielded; now is time.time() since entry.
\* classified, saves and failed are history: the labels handed to the
\* classifier, the number of checkpoint writes, and the positions whose
\* iteration ended in the handler of line 832; raised: whether the call
\* went through the handler of line 888.
GroupStart(plots_group, progress_file, complete_file) ==
    [results |-> <<>>, plots_processed |-> 0, pos |-> 0,
     now |-> 0, last_save_time |-> 0,
     progress_file |-> progress_file, complete_file |-> complete_file,
     tracker |-> [processed |-> 0, total |-> 0, last_processed |-> 0],
     classified |-> <<>>, saves |-> 0, failed |-> {}, raised |-> FALSE,
     phase |-> "entry"]

\* lines 762-773: the group's entry in progress_tracker
GroupEnter(st, plots_group) ==
    [st EXCEPT !.tracker = [processed |-> 0, total |-> Len(plots_group),
                            last_processed |-> 0],
               !.phase = "loop"]

\* what the calls of line 785 return for the plots of a group, in its order
\* (the classifier reads nothing the loop changes)
PlotStats(gdf, plots_group, slope_data, bounds, k) ==
    LET plot_row == gdf[plots_group[k] + 1]
    IN  calculate_plot_statistics_windowed(plot_row, slope_data, bounds, plot_row.id)

GroupStats(gdf, plots_group, slope_data, bounds) ==
    [k \in 1..Len(plots_group) |-> PlotStats(gdf, plots_group, slope_data, bounds, k)]

\* one iteration of the loop of lines 775-840 on the plot at position
\* st.pos + 1; plot_stats is what the classifier returns for
\* it.  env.dur: seconds the classification takes; env.save_ok and
\* env.tsave_ok: whether the write of the periodic (line 812) and of the
\* timed (line 829) checkpoint succeeds.
ProcessPlot(st, gdf, plots_group, plot_stats, env) ==
    LET label == plots_group[st.pos + 1]
        plot_row == gdf[label + 1]
        is_debug_plot == plot_row.id = DEBUG_PLOT_ID
        stats == plot_stats @@ [processing_time |-> env.dur]
        results1 == Append(st.results, stats)
        plots_processed == st.plots_processed + 1
        now == st.now + env.dur
        periodic == plots_processed % SAVE_EVERY = 0 \/ is_debug_plot
        tracker1 == IF periodic
                    THEN [st.tracker EXCEPT !.processed = plots_processed,
                                            !.last_processed = plots_processed]
                    ELSE st.tracker
        save1 == IF periodic
                 THEN save_group_progress(plots_group, results1, st.progress_file, env.save_ok)
                 ELSE [file |-> st.progress_file, raised |-> FALSE]
        timed == ~save1.raised /\ now - st.last_save_time > SAVE_INTERVAL
        save2 == IF timed
                 THEN save_group_progress(plots_group, results1, save1.file, env.tsave_ok)
                 ELSE [file |-> save1.file, raised |-> FALSE]
        raised == save1.raised \/ save2.raised
    IN  [st EXCEPT
            !.results = IF raised THEN Append(results1, ZeroRecord) ELSE results1,
            !.plots_processed = plots_processed,
            !.pos = st.pos + 1,
            !.now = now,
            !.last_save_time = IF timed /\ ~save2.raised THEN now ELSE st.last_save_time,
            !.progress_file = save2.file,
            !.tracker = tracker1,
            !.classified = Append(st.classified, label),
            !.failed = IF raised THEN st.failed \cup {st.pos + 1} ELSE st.failed,
            !.saves = st.saves + (IF periodic /\ ~save1.raised THEN 1 ELSE 0)
                               + (IF timed /\ ~save2.raised THEN 1 ELSE 0)]

\* after the loop, lines 842-886.  The final frame is written unless the
\* plots have no 'id' column (line 859 raises KeyError) or to_file fails;
\* both are caught at line 885.
FinishGroup(st, plots_group, id_column, final_ok) ==
    LET final_result ==
            AssignColumns(plots_group, st.results, Columns(st.results), FALSE)
    IN  [st EXCEPT
            !.tracker = [st.tracker EXCEPT !.processed = Len(plots_group),
                                           !.last_processed = Len(plots_group)],
            !.complete_file = IF id_column /\ final_ok THEN <<final_result>>
                              ELSE st.complete_file,
            !.phase = "returned"]

\* the handler of lines 888-898: an exception outside the per-plot try
Pad(results, remaining_plots) ==
    results \o [k \in 1..remaining_plots |-> ZeroRecord]

\* (a handler that also wrote the final frame)
GroupExcept_WritesFile(st, plots_group) ==
    [st EXCEPT !.results = Pad(st.results, Len(plots_group) - Len(st.results)),
               !.complete_file =
                   <<AssignColumns(plots_group, st.results, Columns(st.results), FALSE)>>,
               !.raised = TRUE,
               !.phase = "returned"]

GroupExcept(st, plots_group) ==
    [st EXCEPT !.results = Pad(st.results, Len(plots_group) - Len(st.results)),
               !.raised = TRUE,
               !.phase = "returned"]


(***************************************************************************)
(* Spatial Partitioner                                                     *)
(***************************************************************************)
SetMin(S) == CHOOSE x \in S : \A y \in S : x <= y
SetMax(S) == CHOOSE x \in S : \A y \in S : x >= y

\* the labels of S in index order (gdf[mask] keeps the frame's order)
SortedSeq(S) ==
    IF S = {} THEN <<>>
    ELSE LET InS(x) == x \in S
         IN  SelectSeq([i \in 1..(SetMax(S) - SetMin(S) + 1) |-> SetMin(S) + i - 1], InS)

Labels(gdf) == { i - 1 : i \in 1..Len(gdf) }

\* gdf.total_bounds, line 216
total_bounds(gdf) ==
    Rect(SetMin({ gdf[i].x0 : i \in 1..Len(gdf) }), SetMin({ gdf[i].y0 : i \in 1..Len(gdf) }),
         SetMax({ gdf[i].x1 : i \in 1..Len(gdf) }), SetMax({ gdf[i].y1 : i \in 1..Len(gdf) }))

\* lines 219-222: <<minx, miny, maxx, maxy>> of the common extent
CommonExtent(gdf) ==
    LET plot_bounds == total_bounds(gdf)
    IN  << Max(plot_bounds.x0, 0), Max(plot_bounds.y0, 0),
           Min(plot_bounds.x1, RasterRight), Min(plot_bounds.y1, RasterTop) >>

\* line 224
NoOverlap(ext) == ext[1] >= ext[3] \/ ext[2] >= ext[4]

\* lines 228-245: bounds of grid cell (i, j); i steps along x, j along y
CellBounds(ext, grid_size, i, j) ==
    LET cell_width == (ext[3] - ext[1]) \div grid_size
        cell_height == (ext[4] - ext[2]) \div grid_size
        cell_minx == ext[1] + i * cell_width
        cell_miny == ext[2] + j * cell_height
    IN  << cell_minx, cell_miny, cell_minx + cell_width, cell_miny + cell_height >>

\* lines 235, 248-253: the cell with its buffer
BufferedCell(b) ==
    LET buffer_size == PIXEL * INDEX_BUFFER_PIXELS
    IN  Rect(b[1] - buffer_size, b[2] - buffer_size, b[3] + buffer_size, b[4] + buffer_size)

\* shapely intersects of a plot and a cell.  A plot is its bounding
\* rectangle; a plot with a notch is L-shaped: the rectangle less the corner
\* [x0, notch[1]) x [y0, notch[2]) at its lower left
Intersects(plot, cell) ==
    /\ RectIntersects(plot, cell)
    /\ "notch" \in DOMAIN plot =>
          ~(Min(cell.x1, plot.x1) < plot.notch[1] /\ Min(cell.y1, plot.y1) < plot.notch[2])

\* line 256: labels of the plots meeting the buffered cell
CellMask(gdf, cell) == { l \in Labels(gdf) : Intersects(gdf[l + 1], cell) }

\* a cell that keeps every masked plot, claimed or not
NewPlots_NoFilter(mask, claimed) == mask

\* lines 259-260: the masked plots not yet claimed
NewPlots(mask, claimed) == mask \ claimed

\* the body of the loops of lines 240-265 for cell (i, j): the labels
\* claimed and the groups built after it
IndexStep(gdf, i, j, claimed, groups) ==
    LET bounds == CellBounds(CommonExtent(gdf), GRID_SIZE, i, j)
        mask == CellMask(gdf, BufferedCell(bounds))
        new_plots == NewPlots(mask, claimed)
    IN  [claimed |-> claimed \cup new_plots,
         groups |-> IF new_plots # {}
                    THEN Append(groups, [plots |-> SortedSeq(new_plots), bounds |-> bounds])
                    ELSE groups]

\* loops that run along x inside and along y outside
RECURSIVE IndexFrom_RowMajor(_, _, _)
IndexFrom_RowMajor(gdf, k, acc) ==
    IF k = GRID_SIZE * GRID_SIZE THEN acc.groups
    ELSE IndexFrom_RowMajor(gdf, k + 1,
                   IndexStep(gdf, k % GRID_SIZE, k \div GRID_SIZE, acc.claimed, acc.groups))

\* create_spatial_index, lines 203-268, on overlapping extents: the cells
\* in the order of the loops, cell number k is (k \div grid, k % grid)
RECURSIVE IndexFrom(_, _, _)
IndexFrom(gdf, k, acc) ==
    IF k = GRID_SIZE * GRID_SIZE THEN acc.groups
    ELSE IndexFrom(gdf, k + 1,
                   IndexStep(gdf, k \div GRID_SIZE, k % GRID_SIZE, acc.claimed, acc.groups))

create_spatial_index(gdf) == IndexFrom(gdf, 0, [claimed |-> {}, groups |-> <<>>])

(***************************************************************************)
(* The job: main, lines 981-1117                                           *)
(***************************************************************************)
MaxPlots == 2
MaxRuns == 2
NumWorkers == 2          \* mp.cpu_count()
MaxGroups == GRID_SIZE * GRID_SIZE

\* plots the inputs are drawn from (units; the raster covers 0..192 x 0..64)
mkplot(x0, y0, x1, y1, bad, id) ==
    [x0 |-> x0, y0 |-> y0, x1 |-> x1, y1 |-> y1, bad |-> bad, id |-> id]

PlotShapes ==
    { mkplot(4, 4, 12, 12, FALSE, 11),          \* inside, over four pixels
      mkplot(40, 40, 48, 48, FALSE, 12),        \* exactly one pixel
      mkplot(12, 20, 52, 28, FALSE, 13),        \* wide, straddles grid cells
      mkplot(52, 4, 60, 12, FALSE, DEBUG_PLOT_ID),
      mkplot(160, 160, 168, 168, FALSE, 15),    \* far outside the raster
      mkplot(-12, 8, -4, 16, FALSE, 16),        \* outside, within the index buffer
      mkplot(20, 52, 28, 72, FALSE, 17),        \* partly outside
      mkplot(44, 44, 52, 52, TRUE, 18),         \* the classifier raises on it
      mkplot(8, 28, 176, 36, FALSE, 19) }       \* long, across the raster

\* the values are laid out so that 12 and 22 alternate along some raster rows
SlopeValues == << 5, 12, 15, NODATA, 30, 40, 22, 8, 10, 35 >>

RasterFiles == {0, 1}

\* the band of each raster file: [<<row, col>> -> slope value or NODATA]
RasterBands ==
    [f \in RasterFiles |->
        [rc \in (0..(RasterRows - 1)) \X (0..(RasterCols - 1)) |->
            SlopeValues[((3 * rc[1] + 5 * rc[2] + f) % Len(SlopeValues)) + 1]]]

\* the array src.read(1, ...) is taken from
RasterData(f) == RasterBands[f]

RECURSIVE SeqsOver(_, _)
\* the sequences of n distinct elements of S
SeqsOver(S, n) ==
    IF n = 0 THEN { <<>> }
    ELSE UNION { { Append(q, x) : x \in S \ { q[i] : i \in 1..Len(q) } } : q \in SeqsOver(S, n - 1) }

PlotInputs == UNION { SeqsOver(PlotShapes, n) : n \in 1..MaxPlots }

NoFiles == [g \in 1..MaxGroups |-> <<>>]

\* no pure function is being called, no worker process reports
NoCall == [op |-> "none", args |-> <<>>, out |-> <<>>]

NoProgress ==
    [clock |-> 0, sizes |-> <<>>, todo |-> {}, running |-> <<>>, plots_processed |-> <<>>,
     tracker |-> <<>>, reports |-> <<>>]

ClassifierIdle ==
    /\ cl_plot = mkplot(0, 0, 0, 0, FALSE, 0)
    /\ cl_bounds = <<0, 0, 0, 0>>
    /\ cl_stats = <<>>

\* seconds a classification takes: the inputs are fast or slow plots
FastPlot == 1
SlowPlot == SAVE_INTERVAL + 1

Init ==
    /\ slope_raster = 0
    /\ has_id \in BOOLEAN
    /\ \E input \in PlotInputs :
          plots = [i \in 1..Len(input) |->
                      [input[i] EXCEPT !.id = IF has_id THEN input[i].id ELSE 0]]
    /\ src_count \in {1, 3}
    /\ out_writable \in BOOLEAN
    /\ pc = "start"
    /\ ci = 0 /\ cj = 0
    /\ processed_plots = {}
    /\ spatial_groups = <<>>
    /\ task = <<>>
    /\ all_results = <<>>
    /\ result = <<>>
    /\ progress_files = NoFiles
    /\ complete_files = NoFiles
    /\ run = 1
    /\ complete_at_start = {}
    /\ classified = {}
    /\ ClassifierIdle
    /\ grp = GroupStart(<<>>, <<>>, <<>>)
    /\ call = NoCall
    /\ prog = NoProgress

inputVars == <<slope_raster, plots, has_id, src_count, out_writable>>
classVars == <<cl_plot, cl_bounds, cl_stats>>
fileVars == <<progress_files, complete_files>>
indexVars == <<ci, cj, processed_plots, spatial_groups>>
vars == <<inputVars, classVars, grp, call, prog, fileVars, indexVars, pc, task, all_results, result,
          run, complete_at_start, classified>>

\* lines 994-1048 and 207-238: output directory, raster validation, load,
\* and the overlap test of create_spatial_index.  Any exception reaches the
\* handler of lines 1113-1117: sys.exit(1)
SetupFails_NoBandCheck ==
    \/ ~out_writable
    \/ NoOverlap(CommonExtent(plots))

SetupFails ==
    \/ ~out_writable
    \/ src_count # 1
    \/ NoOverlap(CommonExtent(plots))

MainSetup ==
    /\ pc = "start"
    /\ pc' = IF SetupFails THEN "exit1" ELSE "index"
    /\ UNCHANGED <<inputVars, classVars, grp, call, prog, fileVars, indexVars, task, all_results, result,
                   run, complete_at_start, classified>>

\* one pass of the body of the loops of lines 240-265, for cell (ci, cj);
\* after the last cell, lines 267-268 and 1050-1051
IndexCell ==
    /\ pc = "index"
    /\ LET step == IndexStep(plots, ci, cj, processed_plots, spatial_groups)
           groups == step.groups
           last == ci = GRID_SIZE - 1 /\ cj = GRID_SIZE - 1
       IN  /\ spatial_groups' = groups
           /\ processed_plots' = step.claimed
           /\ ci' = IF cj = GRID_SIZE - 1 THEN ci + 1 ELSE ci
           /\ cj' = IF cj = GRID_SIZE - 1 THEN 0 ELSE cj + 1
           /\ pc' = IF ~last THEN "index"
                    ELSE IF Len(groups) = 0 THEN "exit1" ELSE "pool"
           /\ task' = IF last THEN [g \in 1..Len(groups) |-> "pending"] ELSE task
    /\ UNCHANGED <<inputVars, classVars, grp, call, prog, fileVars, all_results, result,
                   run, complete_at_start, classified>>

\* the tasks imap_unordered may hand to a free worker next, lines 1069-1073:
\* tasks are taken in list order (chunksize 1), whatever files exist
NextTasks_SkipComplete(tasks, files) ==
    { g \in 1..Len(tasks) :
        /\ tasks[g] = "pending" /\ files[g] = <<>>
        /\ \A h \in 1..(g - 1) : tasks[h] # "pending" \/ files[h] # <<>> }

NextTasks(tasks, files) ==
    { g \in 1..Len(tasks) : tasks[g] = "pending" /\ \A h \in 1..(g - 1) : tasks[h] # "pending" }

StartTask ==
    /\ pc = "pool"
    /\ Cardinality({ g \in 1..Len(task) : task[g] = "running" }) < NumWorkers
    /\ \E g \in NextTasks(task, complete_files) :
          task' = [task EXCEPT ![g] = "running"]
    /\ UNCHANGED <<inputVars, classVars, grp, call, prog, fileVars, indexVars, pc, all_results, result,
                   run, complete_at_start, classified>>

\* process_spatial_group, lines 751-900, run to its return on a worker
RECURSIVE RunLoop(_, _, _, _, _)
RunLoop(st, gdf, plots_group, group_stats, env) ==
    IF st.pos = Len(plots_group) THEN st
    ELSE RunLoop(ProcessPlot(st, gdf, plots_group, group_stats[st.pos + 1], env),
                 gdf, plots_group, group_stats, env)

process_spatial_group(gdf, group, group_stats, id_column, progress_file, complete_file, env, final_ok) ==
    FinishGroup(RunLoop(GroupEnter(GroupStart(group.plots, progress_file, complete_file),
                                   group.plots),
                        gdf, group.plots, group_stats, env),
                group.plots, id_column, final_ok)

\* a running task returns and main extends all_results with what it
\* returned (line 1074): results arrive in completion order
FinishTask ==
    /\ pc = "pool"
    /\ \E g \in 1..Len(task) :
          /\ task[g] = "running"
          /\ \E group_stats \in { GroupStats(plots, spatial_groups[g].plots,
                                               RasterData(slope_raster),
                                               spatial_groups[g].bounds) } :
                 \E save_ok \in BOOLEAN, final_ok \in BOOLEAN :
                 LET env == [dur |-> FastPlot, save_ok |-> save_ok, tsave_ok |-> save_ok]
                     st == process_spatial_group(plots, spatial_groups[g], group_stats, has_id,
                                                 progress_files[g], complete_files[g],
                                                 env, final_ok)
                 IN  /\ all_results' = all_results \o st.results
                     /\ progress_files' = [progress_files EXCEPT ![g] = st.progress_file]
                     /\ complete_files' = [complete_files EXCEPT ![g] = st.complete_file]
                     /\ classified' = classified \cup
                                         { st.classified[k] : k \in 1..Len(st.classified) }
          /\ task' = [task EXCEPT ![g] = "done"]
    /\ UNCHANGED <<inputVars, classVars, grp, call, prog, indexVars, pc, result, run, complete_at_start>>

\* lines 1076-1081: the final frame; processing_time is left out
MergeResults(gdf, results) ==
    AssignColumns(SortedSeq(Labels(gdf)), results,
                  Columns(results) \ {"processing_time"}, FALSE)

\* lines 1076-1111, once the pool has returned every group
Merge ==
    /\ pc = "pool"
    /\ \A g \in 1..Len(task) : task[g] = "done"
    /\ result' = <<MergeResults(plots, all_results)>>
    /\ pc' = "done"
    /\ UNCHANGED <<inputVars, classVars, grp, call, prog, fileVars, indexVars, task, all_results,
                   run, complete_at_start, classified>>

\* the job is interrupted while the pool works and started again on the
\* same inputs: the files written so far stay, everything else starts anew
Restart ==
    /\ pc = "pool"
    /\ run < MaxRuns
    /\ run' = run + 1
    /\ complete_at_start' = { g \in 1..MaxGroups : complete_files[g] # <<>> }
    /\ pc' = "start"
    /\ ci' = 0 /\ cj' = 0
    /\ processed_plots' = {}
    /\ spatial_groups' = <<>>
    /\ task' = <<>>
    /\ all_results' = <<>>
    /\ result' = <<>>
    /\ classified' = {}
    /\ UNCHANGED <<inputVars, classVars, grp, call, prog, fileVars>>

\* one start of the job
Next ==
    \/ MainSetup
    \/ IndexCell
    \/ StartTask
    \/ FinishTask
    \/ Merge

Spec == Init /\ [][Next]_vars

\* the job with restarts, on inputs that pass the setup, have an 'id'
\* column (without one no complete file is ever written) and whose plots
\* lie inside the raster
InitRestart ==
    /\ Init
    /\ has_id /\ out_writable /\ src_count = 1
    /\ \A i \in 1..Len(plots) :
          /\ ~plots[i].bad
          /\ IntersectionArea(plots[i], Rect(0, 0, RasterRight, RasterTop)) = RectArea(plots[i])

NextRestart ==
    \/ MainSetup
    \/ IndexCell
    \/ StartTask
    \/ FinishTask
    \/ Merge
    \/ Restart

SpecRestart == InitRestart /\ [][NextRestart]_vars


(***************************************************************************)
(* One worker inside process_spatial_group, iteration by iteration         *)
(***************************************************************************)
MaxGroupFrame == 3
LongGroup == SAVE_EVERY + 1

\* the plots the short frames are made of
GroupShapes ==
    { mkplot(4, 4, 12, 12, FALSE, 11),
      mkplot(52, 4, 60, 12, FALSE, DEBUG_PLOT_ID),
      mkplot(44, 44, 52, 52, TRUE, 18),
      mkplot(120, 20, 128, 28, FALSE, 21) }

\* a frame of LongGroup neighbouring plots, which the index puts in one group
LongFrame ==
    [i \in 1..LongGroup |->
        IF i % 2 = 0 THEN mkplot(4, 4, 12, 12, FALSE, 100 + i)
        ELSE mkplot(8, 8, 16, 16, FALSE, 100 + i)]

GroupFrames == SeqsOver(GroupShapes, MaxGroupFrame) \cup { LongFrame }

\* the task arguments main builds for a frame (lines 1057-1066): every group
\* of its spatial index
GroupInputs ==
    UNION { { [gdf |-> f, group |-> g] :
                g \in { create_spatial_index(f)[n] : n \in 1..Len(create_spatial_index(f)) } } :
            f \in GroupFrames }

InitGroup ==
    /\ slope_raster = 0
    /\ has_id \in BOOLEAN
    /\ \E input \in GroupInputs :
          /\ plots = [i \in 1..Len(input.gdf) |->
                        [input.gdf[i] EXCEPT !.id = IF has_id THEN input.gdf[i].id ELSE 0]]
          /\ spatial_groups = << input.group >>
          /\ processed_plots = { input.group.plots[k] : k \in 1..Len(input.group.plots) }
          /\ grp = GroupStart(input.group.plots, <<>>, <<>>)
    /\ src_count = 1
    /\ out_writable = TRUE
    /\ pc = "group"
    /\ ci = GRID_SIZE /\ cj = 0
    /\ task = << "running" >>
    /\ all_results = <<>>
    /\ result = <<>>
    /\ progress_files = NoFiles
    /\ complete_files = NoFiles
    /\ run = 1
    /\ complete_at_start = {}
    /\ classified = {}
    /\ ClassifierIdle
    /\ call = NoCall
    /\ prog = NoProgress

jobVars == <<inputVars, classVars, call, prog, fileVars, indexVars, pc, task, all_results,
             result, run, complete_at_start, classified>>

\* the seconds a plot of the group may take: long groups are made of fast plots
Durations(plots_group) ==
    IF Len(plots_group) <= MaxGroupFrame THEN {FastPlot, SlowPlot} ELSE {FastPlot}

\* lines 762-773
GroupEnterStep ==
    /\ pc = "group"
    /\ grp.phase = "entry"
    /\ grp' = GroupEnter(grp, spatial_groups[1].plots)
    /\ UNCHANGED jobVars

\* one iteration of the loop of lines 775-840
PlotStep ==
    /\ pc = "group"
    /\ grp.phase = "loop"
    /\ grp.pos < Len(spatial_groups[1].plots)
    /\ \E plot_stats \in { PlotStats(plots, spatial_groups[1].plots, RasterData(slope_raster),
                                       spatial_groups[1].bounds, grp.pos + 1) } :
          \E dur \in Durations(spatial_groups[1].plots),
             save_ok \in BOOLEAN, tsave_ok \in BOOLEAN :
             grp' = ProcessPlot(grp, plots, spatial_groups[1].plots, plot_stats,
                                [dur |-> dur, save_ok |-> save_ok, tsave_ok |-> tsave_ok])
    /\ UNCHANGED jobVars

\* an exception outside the per-plot try (lines 762-773, the loop header,
\* lines 843-848) reaches the handler of line 888
GroupRaises ==
    /\ pc = "group"
    /\ grp.phase \in {"entry", "loop"}
    /\ grp' = GroupExcept(grp, spatial_groups[1].plots)
    /\ UNCHANGED jobVars

\* lines 842-886 and the return of line 900
GroupFinishStep ==
    /\ pc = "group"
    /\ grp.phase = "loop"
    /\ grp.pos = Len(spatial_groups[1].plots)
    /\ \E final_ok \in BOOLEAN :
          grp' = FinishGroup(grp, spatial_groups[1].plots, has_id, final_ok)
    /\ UNCHANGED jobVars

NextGroup ==
    \/ GroupEnterStep
    \/ PlotStep
    \/ GroupRaises
    \/ GroupFinishStep

SpecGroup == InitGroup /\ [][NextGroup]_vars

(***************************************************************************)
(* Calls of calculate_plot_statistics_windowed                             *)
(***************************************************************************)
\* lower left corners of the one-pixel-sized plots handed to the classifier
PlotCorners == { -12, 160 } \cup { 4 * k : k \in 0..15 }

ClassifyPlots ==
    { mkplot(x, y, x + PIXEL, y + PIXEL, bad, 1) :
        x \in PlotCorners, y \in PlotCorners, bad \in BOOLEAN }
    \cup { mkplot(8, 28, 176, 36, FALSE, 1),               \* long, across the raster
           mkplot(52, 4, 60, 12, FALSE, DEBUG_PLOT_ID),
           mkplot(20, 20, 20, 28, FALSE, 1) }              \* zero area
    \* quarter-pixel squares strictly inside one raster cell: its four
    \* quadrants and its middle
    \cup { mkplot(x + dx, y + dy, x + dx + 2, y + dy + 2, FALSE, 1) :
            x \in {40, 48}, y \in {40}, dx \in {1, 3, 5}, dy \in {1, 3, 5} }

\* the bounds main passes on: cells of the grid over the raster extent
ClassifyBounds ==
    { CellBounds(<<0, 0, RasterRight, RasterTop>>, GRID_SIZE, i, j) :
        i \in 0..(GRID_SIZE - 1), j \in {0, GRID_SIZE - 1} }

InitClassify ==
    /\ slope_raster \in RasterFiles
    /\ cl_plot \in ClassifyPlots
    /\ cl_bounds \in ClassifyBounds
    /\ RectIntersects(cl_plot, BufferedCell(cl_bounds))
    /\ cl_stats = <<>>
    /\ plots = << cl_plot >>
    /\ has_id = TRUE
    /\ src_count = 1
    /\ out_writable = TRUE
    /\ pc = "classify"
    /\ ci = 0 /\ cj = 0
    /\ processed_plots = {}
    /\ spatial_groups = <<>>
    /\ task = <<>>
    /\ all_results = <<>>
    /\ result = <<>>
    /\ progress_files = NoFiles
    /\ complete_files = NoFiles
    /\ run = 1
    /\ complete_at_start = {}
    /\ classified = {}
    /\ grp = GroupStart(<<>>, <<>>, <<>>)
    /\ call = NoCall
    /\ prog = NoProgress

\* the call of line 785
Classify ==
    /\ pc = "classify"
    /\ cl_stats = <<>>
    /\ cl_stats' = << calculate_plot_statistics_windowed(cl_plot, RasterData(slope_raster),
                                                         cl_bounds, cl_plot.id) >>
    /\ UNCHANGED <<inputVars, cl_plot, cl_bounds, grp, call, prog, fileVars, indexVars, pc, task,
                   all_results, result, run, complete_at_start, classified>>

NextClassify == Classify

SpecClassify == InitClassify /\ [][NextClassify]_vars


(***************************************************************************)
(* Progress Tracker                                                        *)
(***************************************************************************)
\* rates are held in tenths and alpha in tenths (1 is the default 0.1);
\* None is <<>> and a previous value p is << p >>

\* a test on the truth value of previous_ewma in place of the test for None
calculate_ewma_Falsy(current_rate, previous_ewma, alpha) ==
    IF previous_ewma = <<>> \/ previous_ewma[1] = 0 THEN current_rate
    ELSE (alpha * current_rate + (10 - alpha) * previous_ewma[1]) \div 10

\* calculate_ewma, lines 110-114
calculate_ewma(current_rate, previous_ewma, alpha) ==
    IF previous_ewma = <<>> THEN current_rate
    ELSE (alpha * current_rate + (10 - alpha) * previous_ewma[1]) \div 10

\* time.time() is counted in ticks
TICKS_PER_SECOND == 2
MaxClock == 4
MaxProgressGroups == 3
\* len(plots_group) of the groups handed to the pool
GroupSizes == { 50, 200 }

\* the module-level progress_tracker of lines 93-108 as each pool process
\* holds it when it starts: mp.Pool runs process_spatial_group in worker
\* processes, each with its own copy of the module's globals
progress_tracker == [group_progress |-> <<>>, last_progress_print |-> 0]

\* sum(g[field] for g in progress_tracker['group_progress'].values())
TrackerSum(tr, field) ==
    SumOver(DOMAIN tr.group_progress, [g \in DOMAIN tr.group_progress |->
                                          tr.group_progress[g][field]])

\* lines 764-773: the group's entry of the process's tracker.  ewma_rate
\* None is <<>>.  rate_from and fed are history: the time and the number of
\* plots processed when the group's rate was last updated (at first, when
\* the group started), and what the last update was fed.
SetGroup(tr, group_index, total, group_start_time) ==
    [tr EXCEPT !.group_progress =
        [g \in DOMAIN tr.group_progress \cup {group_index} |->
            IF g = group_index
            THEN [processed |-> 0, total |-> total,
                  start_time |-> group_start_time,
                  last_update_time |-> group_start_time,
                  last_processed |-> 0,
                  ewma_rate |-> <<>>,
                  rate_from |-> [time |-> group_start_time, processed |-> 0],
                  fed |-> <<>>]
            ELSE tr.group_progress[g]]]

\* lines 804-808 and 843-847: the worker stores its count and the time in
\* the group's entry before it calls update_progress
MarkGroup(tr, group_index, plots_processed, now) ==
    [tr EXCEPT !.group_progress[group_index] =
        [@ EXCEPT !.processed = plots_processed,
                  !.last_update_time = now,
                  !.last_processed = plots_processed]]

\* lines 131-141: the group's entry after the rate calculation
GroupRate(group_data, processed, current_time) ==
    LET time_delta == current_time - group_data.last_update_time
        plots_delta == processed - group_data.last_processed
    IN  IF time_delta > 0
        THEN LET current_rate == (plots_delta * 10 * TICKS_PER_SECOND) \div time_delta
             IN  [group_data EXCEPT
                     !.ewma_rate = << calculate_ewma(current_rate, @, 1) >>,
                     !.rate_from = [time |-> current_time, processed |-> processed],
                     !.fed = << [current_rate |-> current_rate,
                                 plots |-> processed - group_data.rate_from.processed,
                                 ticks |-> current_time - group_data.rate_from.time] >>]
        ELSE group_data

\* update_progress, lines 116-201, on the tracker tr of the calling process
\* at time current_time: the tracker afterwards and the report printed, if any
update_progress(tr, worker, group_index, processed, current_time) ==
    IF current_time - tr.last_progress_print < TICKS_PER_SECOND
    THEN [tracker |-> tr, printed |-> <<>>]
    ELSE LET group_data == GroupRate(tr.group_progress[group_index], processed, current_time)
             upd == [tr EXCEPT !.group_progress[group_index] =
                        [group_data EXCEPT !.processed = processed,
                                           !.last_update_time = current_time,
                                           !.last_processed = processed]]
             total_processed == TrackerSum(upd, "processed")
             total_plots == TrackerSum(upd, "total")
         IN  IF total_plots > 0
             THEN [tracker |-> [upd EXCEPT !.last_progress_print = current_time],
                   printed |-> << [worker |-> worker, time |-> current_time,
                                   total_processed |-> total_processed,
                                   total_plots |-> total_plots] >>]
             ELSE [tracker |-> upd, printed |-> <<>>]

InitProgress ==
    /\ \E sizes \in [1..MaxProgressGroups -> GroupSizes] :
          prog = [clock |-> TICKS_PER_SECOND,
                  sizes |-> sizes,
                  todo |-> 1..MaxProgressGroups,
                  running |-> [w \in 1..NumWorkers |-> 0],
                  plots_processed |-> [w \in 1..NumWorkers |-> 0],
                  tracker |-> [w \in 1..NumWorkers |-> progress_tracker],
                  reports |-> <<>>]
    /\ call = NoCall
    /\ slope_raster = 0
    /\ plots = <<>>
    /\ has_id = TRUE
    /\ src_count = 1
    /\ out_writable = TRUE
    /\ pc = "progress"
    /\ ci = 0 /\ cj = 0
    /\ processed_plots = {}
    /\ spatial_groups = <<>>
    /\ task = <<>>
    /\ all_results = <<>>
    /\ result = <<>>
    /\ progress_files = NoFiles
    /\ complete_files = NoFiles
    /\ run = 1
    /\ complete_at_start = {}
    /\ classified = {}
    /\ ClassifierIdle
    /\ grp = GroupStart(<<>>, <<>>, <<>>)

progressRest == <<inputVars, classVars, grp, call, fileVars, indexVars, pc, task,
                  all_results, result, run, complete_at_start, classified>>

\* time passes
Tick ==
    /\ pc = "progress"
    /\ prog.clock < MaxClock
    /\ prog' = [prog EXCEPT !.clock = @ + 1]
    /\ UNCHANGED progressRest

\* pool.imap_unordered hands the next group to an idle worker, which enters
\* process_spatial_group: lines 1069-1073 and 762-773
WorkerStartGroup(w) ==
    /\ pc = "progress"
    /\ prog.running[w] = 0
    /\ prog.todo # {}
    /\ LET g == SetMin(prog.todo)
       IN  prog' = [prog EXCEPT !.todo = @ \ {g},
                                !.running[w] = g,
                                !.plots_processed[w] = 0,
                                !.tracker[w] = SetGroup(@, g, prog.sizes[g], prog.clock)]
    /\ UNCHANGED progressRest

\* the tracker and the reports after the worker has set its group's counts
\* and called update_progress; gap is the time between the time.time() of
\* line 807 (or 846) and that of line 118
Reported(w, g, n, gap) ==
    LET r == update_progress(MarkGroup(prog.tracker[w], g, n, prog.clock),
                             w, g, n, prog.clock + gap)
    IN  [prog EXCEPT !.tracker[w] = r.tracker, !.reports = @ \o r.printed,
                     !.clock = @ + gap]

\* the clock may or may not advance between the two readings
Gaps == { gap \in {0, 1} : prog.clock + gap <= MaxClock }

\* the worker classifies the next SAVE_EVERY plots of its group: lines 775-809
WorkerHundred(w) ==
    /\ pc = "progress"
    /\ prog.running[w] # 0
    /\ prog.plots_processed[w] + SAVE_EVERY <= prog.sizes[prog.running[w]]
    /\ LET n == prog.plots_processed[w] + SAVE_EVERY
       IN  \E gap \in Gaps :
              prog' = [Reported(w, prog.running[w], n, gap) EXCEPT !.plots_processed[w] = n]
    /\ UNCHANGED progressRest

\* the worker classifies the rest of its group and leaves the loop: lines 843-848
WorkerFinish(w) ==
    /\ pc = "progress"
    /\ prog.running[w] # 0
    /\ prog.plots_processed[w] + SAVE_EVERY > prog.sizes[prog.running[w]]
    /\ LET n == prog.sizes[prog.running[w]]
       IN  \E gap \in Gaps :
              prog' = [Reported(w, prog.running[w], n, gap) EXCEPT !.running[w] = 0,
                                                              !.plots_processed[w] = n]
    /\ UNCHANGED progressRest

NextProgress ==
    \/ Tick
    \/ \E w \in 1..NumWorkers : WorkerStartGroup(w)
    \/ \E w \in 1..NumWorkers : WorkerHundred(w)
    \/ \E w \in 1..NumWorkers : WorkerFinish(w)

SpecProgress == InitProgress /\ [][NextProgress]_vars

(***************************************************************************)
(* Vector variant: shape_slope_statistics.py, process_plot_group           *)
(***************************************************************************)
\* areas are held in hundredths of a m2 and percentages in tenths of a
\* percent.  A plot of the group is [geom, area, zones]: geom is "valid",
\* "fixable" (make_valid repairs it) or "unfixable"; area is its UTM area;
\* zones are the slope zones that intersect it, each [slope_min, slope_max,
\* area] with the area of its intersection with the plot.

\* float('inf')
INF == 1000

\* SLOPE_CLASSES of shape_slope_statistics.py, lines 43-49
ShapeSlopeClasses ==
    << [min_val |-> 0,  max_val |-> 10,  class_name |-> "slope_0_10"],
       [min_val |-> 10, max_val |-> 20,  class_name |-> "slope_10_20"],
       [min_val |-> 20, max_val |-> 25,  class_name |-> "slope_20_25"],
       [min_val |-> 25, max_val |-> 35,  class_name |-> "slope_25_35"],
       [min_val |-> 35, max_val |-> INF, class_name |-> "slope_35_inf"] >>

ShapeClassNames == { ShapeSlopeClasses[i].class_name : i \in 1..Len(ShapeSlopeClasses) }

ClassNamed(n) == CHOOSE c \in Range(ShapeSlopeClasses) : c.class_name = n

\* the test of lines 291-293
ZoneInClass(zone, c) ==
    \/ zone.slope_min >= c.min_val /\ zone.slope_min < c.max_val
    \/ zone.slope_max > c.min_val /\ zone.slope_max <= c.max_val
    \/ zone.slope_min <= c.min_val /\ zone.slope_max >= c.max_val

\* round(x, 1) of an area
RoundTenth(a) == RoundHalfEven(a, 10) * 10

\* the columns set by lines 160-170
InitialRow ==
    [area_m2 |-> [n \in ShapeClassNames |-> 0],
     percent |-> [n \in ShapeClassNames |-> 0],
     total_area_m2 |-> 0, has_slope_data |-> FALSE, geometry_valid |-> TRUE,
     steep_slope_percent |-> 0, steep_slope_area_m2 |-> 0]

\* lines 283-343: the class areas accumulated over the intersecting zones
ZoneAreas(zones) ==
    [n \in ShapeClassNames |->
        LET hits == { z \in DOMAIN zones : ZoneInClass(zones[z], ClassNamed(n)) }
        IN  SumOver(hits, [z \in hits |-> zones[z].area])]

\* lines 383-430 for a plot with total_area_m2 > 0 and total_slope_area > 0:
\* normalisation, rounding, percentages and the steep slope columns
FinishRow(row, accumulated, total_slope_area) ==
    LET total_area_m2 == row.total_area_m2
        normalize == 100 * (IF total_slope_area > total_area_m2
                            THEN total_slope_area - total_area_m2
                            ELSE total_area_m2 - total_slope_area) > 5 * total_area_m2
        areas == [n \in ShapeClassNames |->
                     RoundTenth(IF normalize
                                THEN RoundHalfEven(accumulated[n] * total_area_m2,
                                                   total_slope_area * 10) * 10
                                ELSE accumulated[n])]
        percent == [n \in ShapeClassNames |-> RoundHalfEven(areas[n] * 1000, total_area_m2)]
        steep == percent["slope_25_35"] + percent["slope_35_inf"]
    IN  [row EXCEPT !.area_m2 = areas, !.percent = percent,
                    !.steep_slope_percent = steep,
                    !.steep_slope_area_m2 = RoundHalfEven(steep * total_area_m2, 10000) * 10]

\* one pass of the loop of lines 176-436 on a plot
process_plot(plot) ==
    IF plot.geom = "unfixable"
    THEN [InitialRow EXCEPT !.geometry_valid = FALSE]                   \* lines 193-207
    ELSE LET row == [InitialRow EXCEPT !.total_area_m2 = RoundTenth(plot.area)]
             accumulated == ZoneAreas(plot.zones)
             total_slope_area == SumOver(ShapeClassNames, accumulated)
         IN  IF plot.zones = <<>> THEN row                              \* lines 266-269
             ELSE IF total_slope_area = 0                               \* lines 377-380
                  THEN [row EXCEPT !.area_m2 = accumulated]
             ELSE IF row.total_area_m2 = 0                              \* lines 396-401
                  THEN [row EXCEPT !.area_m2 = accumulated]
             ELSE FinishRow([row EXCEPT !.has_slope_data = TRUE],
                            accumulated, total_slope_area)

\* a loop that an unfixable geometry ends
process_plot_group_StopsOnInvalid(plots_group) ==
    [i \in DOMAIN plots_group |->
        IF \E j \in 1..(i - 1) : plots_group[j].geom = "unfixable"
        THEN InitialRow ELSE process_plot(plots_group[i])]

\* process_plot_group, lines 152-445: every pass writes the row of its own
\* plot only, and every exception is caught inside the pass
process_plot_group(plots_group) ==
    [i \in DOMAIN plots_group |-> process_plot(plots_group[i])]

(***************************************************************************)
(* Region roll-up                                                          *)
(***************************************************************************)
\* the buckets of a record: the four classes and the below-minimum bucket
BucketKeys == ClassKeys \cup { "pct_slope_below_min" }

\* group[column].sum() for the member rows at positions members of df
ColumnSum(df, members, column) ==
    SumOver(members, [i \in members |-> column[i]])

\* a mean of the percentages weighted by shape_area_m2, as a fraction
WeightedMean(df, members, k) ==
    [num |-> ColumnSum(df, members, [i \in members |-> df[i].shape_area_m2 * df[i].pct[k]]),
     den |-> ColumnSum(df, members, [i \in members |-> df[i].shape_area_m2])]

\* group['pct_...'].mean() of lines 940-956, as a fraction
Mean(df, members, k) ==
    [num |-> ColumnSum(df, members, [i \in members |-> df[i].pct[k]]),
     den |-> Cardinality(members)]

\* create_region_aggregated_stats, lines 902-977: one row per region of the
\* frame; percentages (in percent) and areas (in m2) are fractions num / den
create_region_aggregated_stats(result_df) ==
    [g \in { result_df[i].region : i \in DOMAIN result_df } |->
        LET members == { i \in DOMAIN result_df : result_df[i].region = g }
            total_area_m2 == ColumnSum(result_df, members,
                                       [i \in members |-> result_df[i].shape_area_m2])
            pct == [k \in BucketKeys |-> Mean(result_df, members, k)]
        IN  [total_area_m2 |-> total_area_m2,
             pct |-> pct,
             area_m2 |-> [k \in BucketKeys |->
                             [num |-> total_area_m2 * pct[k].num,
                              den |-> pct[k].den * 100]],
             nds_slope_area_m2 |->
                 [num |-> total_area_m2 * (pct["pct_slope_25_35"].num
                                           + pct["pct_slope_35_inf"].num),
                  den |-> Cardinality(members) * 100]]]

(***************************************************************************)
(* Calls of the pure functions, one call per behaviour                     *)
(***************************************************************************)
\* the largest slope value handed to the class tests
MaxSlope == 45

\* one kept cell of weight 1 holding the slope v
ClassesInputs == { [op |-> "classes", args |-> << v >>, out |-> <<>>] : v \in 0..MaxSlope }

\* bounds handed to get_valid_window: inside, partly outside and wholly
\* outside the raster on every side, of positive and of zero width or height
WindowXs == { -200, -96, 0, 41, 96, RasterRight, RasterRight + 88, RasterRight + 200 }
WindowYs == { -200, -88, 0, 33, RasterTop, RasterTop + 200 }

WindowBounds ==
    { b \in WindowXs \X WindowYs \X WindowXs \X WindowYs : b[1] <= b[3] /\ b[2] <= b[4] }

WindowInputs == { [op |-> "window", args |-> << b >>, out |-> <<>>] : b \in WindowBounds }

\* whole rates up to MaxRate per second, in tenths
MaxRate == 20
Rates == { 10 * k : k \in 0..MaxRate }

EwmaInputs ==
    { [op |-> "ewma", args |-> << c, p, a >>, out |-> <<>>] :
        c \in Rates, p \in { <<>> } \cup { << r >> : r \in Rates }, a \in {1, 5} }

\* rows of the final frame handed to create_region_aggregated_stats: the
\* region stands for the (district, village, taluk) triple, percentages are
\* whole percents
MaxRegionRows == 2
OnlyIn(k) == [b \in BucketKeys |-> IF b = k THEN 100 ELSE 0]
HalfIn(k1, k2) == [b \in BucketKeys |-> IF b \in {k1, k2} THEN 50 ELSE 0]

RegionRows ==
    { [region |-> g, shape_area_m2 |-> a, pct |-> p] :
        g \in {"A", "B"}, a \in {100, 300},
        p \in { OnlyIn("pct_slope_10_20"), OnlyIn("pct_slope_below_min"),
                HalfIn("pct_slope_25_35", "pct_slope_35_inf") } }

RegionInputs ==
    { [op |-> "region", args |-> << df >>, out |-> <<>>] :
        df \in UNION { [1..n -> RegionRows] : n \in 1..MaxRegionRows } }

\* plot groups handed to process_plot_group: the zone intervals are the
\* bands written by dem_slope_processor.py (lines 90-95) and one wide zone
MaxZones == 2
ZoneIntervals == { <<10, 20>>, <<20, 25>>, <<25, 50>>, <<50, INF>>, <<5, 40>> }
PlotAreas == { 20, 10000 }

ZonesOf(area) ==
    { zs \in UNION { [1..n -> [slope_min : { iv[1] : iv \in ZoneIntervals },
                               slope_max : { iv[2] : iv \in ZoneIntervals },
                               area : { 0, 7, area \div 2, area }]] : n \in 0..MaxZones } :
        /\ \A z \in DOMAIN zs : << zs[z].slope_min, zs[z].slope_max >> \in ZoneIntervals
        /\ SumOver(DOMAIN zs, [z \in DOMAIN zs |-> zs[z].area]) <= area }

VectorPlots ==
    UNION { { [geom |-> g, area |-> a, zones |-> zs] :
                g \in {"valid", "fixable", "unfixable"}, zs \in ZonesOf(a) } :
            a \in PlotAreas }

\* a plot that one zone of the band 10-20 covers
CoveredPlot(g) ==
    [geom |-> g, area |-> 10000,
     zones |-> << [slope_min |-> 10, slope_max |-> 20, area |-> 10000] >>]

VectorInputs ==
    { [op |-> "plot_group", args |-> << g >>, out |-> <<>>] :
        g \in { << pl >> : pl \in VectorPlots }
               \cup { << CoveredPlot(a), CoveredPlot(b) >> :
                        a, b \in {"valid", "fixable", "unfixable"} } }

\* frames handed to create_spatial_index: rectangles and an L-shaped plot
\* that spans the raster and leaves its lower left corner free
IndexShapes ==
    { mkplot(4, 4, 12, 12, FALSE, 11),
      mkplot(12, 20, 52, 28, FALSE, 13),
      mkplot(100, 4, 108, 60, FALSE, 14),
      mkplot(0, 0, RasterRight, RasterTop, FALSE, 21) @@ [notch |-> << 96, 48 >>],
      mkplot(48, 16, 144, 48, FALSE, 22) @@ [notch |-> << 100, 40 >>] }

IndexInputs ==
    { [op |-> "index", args |-> << gdf >>, out |-> <<>>] :
        gdf \in UNION { SeqsOver(IndexShapes, n) : n \in 1..MaxPlots } }

InitCalls ==
    /\ \/ call \in ClassesInputs
       \/ call \in IndexInputs
       \/ call \in WindowInputs
       \/ call \in EwmaInputs
       \/ call \in RegionInputs
       \/ call \in VectorInputs
    /\ prog = NoProgress
    /\ slope_raster = 0
    /\ plots = <<>>
    /\ has_id = TRUE
    /\ src_count = 1
    /\ out_writable = TRUE
    /\ pc = "call"
    /\ ci = 0 /\ cj = 0
    /\ processed_plots = {}
    /\ spatial_groups = <<>>
    /\ task = <<>>
    /\ all_results = <<>>
    /\ result = <<>>
    /\ progress_files = NoFiles
    /\ complete_files = NoFiles
    /\ run = 1
    /\ complete_at_start = {}
    /\ classified = {}
    /\ ClassifierIdle
    /\ grp = GroupStart(<<>>, <<>>, <<>>)

\* lines 594-620 on the arrays of one kept cell: pixel_slopes = [v],
\* pixel_areas = [1], weights = [1]
ClassesOf(v) ==
    LET kept == { <<0, 0>> }
    IN  DataStats(1, kept, [rc \in kept |-> 1], [rc \in kept |-> v])

CallClasses ==
    /\ pc = "call" /\ call.op = "classes" /\ call.out = <<>>
    /\ call' = [call EXCEPT !.out = << ClassesOf(call.args[1]) >>]
    /\ UNCHANGED <<inputVars, classVars, grp, prog, fileVars, indexVars, pc, task,
                   all_results, result, run, complete_at_start, classified>>

\* the call of line 478 with the raster's shape
CallWindow ==
    /\ pc = "call" /\ call.op = "window" /\ call.out = <<>>
    /\ call' = [call EXCEPT !.out =
                    << get_valid_window(call.args[1], <<RasterRows, RasterCols>>) >>]
    /\ UNCHANGED <<inputVars, classVars, grp, prog, fileVars, indexVars, pc, task,
                   all_results, result, run, complete_at_start, classified>>

\* the calls of lines 138 and 157
CallEwma ==
    /\ pc = "call" /\ call.op = "ewma" /\ call.out = <<>>
    /\ call' = [call EXCEPT !.out =
                    << calculate_ewma(call.args[1], call.args[2], call.args[3]) >>]
    /\ UNCHANGED <<inputVars, classVars, grp, prog, fileVars, indexVars, pc, task,
                   all_results, result, run, complete_at_start, classified>>

\* the call of line 1102
CallRegion ==
    /\ pc = "call" /\ call.op = "region" /\ call.out = <<>>
    /\ call' = [call EXCEPT !.out = << create_region_aggregated_stats(call.args[1]) >>]
    /\ UNCHANGED <<inputVars, classVars, grp, prog, fileVars, indexVars, pc, task,
                   all_results, result, run, complete_at_start, classified>>

\* the call of shape_slope_statistics.py line 610
CallPlotGroup ==
    /\ pc = "call" /\ call.op = "plot_group" /\ call.out = <<>>
    /\ call' = [call EXCEPT !.out = << process_plot_group(call.args[1]) >>]
    /\ UNCHANGED <<inputVars, classVars, grp, prog, fileVars, indexVars, pc, task,
                   all_results, result, run, complete_at_start, classified>>

\* the call of line 1048
CallIndex ==
    /\ pc = "call" /\ call.op = "index" /\ call.out = <<>>
    /\ call' = [call EXCEPT !.out = << create_spatial_index(call.args[1]) >>]
    /\ UNCHANGED <<inputVars, classVars, grp, prog, fileVars, indexVars, pc, task,
                   all_results, result, run, complete_at_start, classified>>

NextCalls ==
    CallClasses \/ CallWindow \/ CallEwma \/ CallRegion \/ CallPlotGroup \/ CallIndex

SpecCalls == InitCalls /\ [][NextCalls]_vars


(***************************************************************************)
(* Properties of the job                                                   *)
(***************************************************************************)

RasterRect == Rect(0, 0, RasterRight, RasterTop)

GroupOf(l) == CHOOSE g \in 1..Len(spatial_groups) : l \in Range(spatial_groups[g].plots)

Grouped(l) == \E g \in 1..Len(spatial_groups) : l \in Range(spatial_groups[g].plots)

\* C1: once create_spatial_index has returned (the extents overlap), every
\* input plot is a member of at least one spatial group.
C1_EveryPlotInAGroup ==
    pc \in {"pool", "done"} => \A l \in Labels(plots) : Grouped(l)

\* C2: no plot appears in two spatial groups, at any point of the indexing
\* and after it, also when the plot meets several buffered cells.
C2_NoPlotInTwoGroups ==
    \A g \in 1..Len(spatial_groups), h \in 1..Len(spatial_groups) :
        g # h => Range(spatial_groups[g].plots) \cap Range(spatial_groups[h].plots) = {}

\* a plot claimed by an earlier group meets the buffered cell of a later group
C2_Witness ==
    /\ pc = "pool"
    /\ \E g \in 1..Len(spatial_groups), h \in 1..Len(spatial_groups) :
          /\ g < h
          /\ \E l \in Range(spatial_groups[g].plots) :
                RectIntersects(plots[l + 1], BufferedCell(spatial_groups[h].bounds))

\* the record process_spatial_group computes for the plot with label l
RecordOf(l) ==
    calculate_plot_statistics_windowed(plots[l + 1], RasterData(slope_raster),
                                       spatial_groups[GroupOf(l)].bounds, plots[l + 1].id)

RowCarries(row, rec) ==
    \A c \in DOMAIN rec : c \in DOMAIN row.stats /\ c \notin row.nan /\ row.stats[c] = rec[c]

\* C3: when main is done, the row of every grouped plot in the final merged
\* frame carries the statistics record computed for that plot, whatever
\* order the groups completed in.
C3_RowsCarryOwnRecord ==
    pc = "done" =>
        \A l \in Labels(plots) : Grouped(l) => RowCarries(result[1][l + 1], RecordOf(l))

\* C4: when main is done, a plot entirely outside the raster extent has
\* has_slope_data = false and 0 in every slope class in the final frame.
C4_OutsidePlotZeroed ==
    pc = "done" =>
        \A l \in Labels(plots) :
            ~RectIntersects(plots[l + 1], RasterRect) =>
                LET row == result[1][l + 1]
                IN  /\ "has_slope_data" \in DOMAIN row.stats \ row.nan
                    /\ row.stats["has_slope_data"] = FALSE
                    /\ \A k \in ClassKeys : k \in DOMAIN row.stats \ row.nan /\ row.stats[k] = 0

\* C7: with a raster of other than one band, or plot and raster extents
\* that share no area, or an unwritable output directory, main goes from
\* its start straight to exit status 1 and no task is ever dispatched.
C7_SetupFailFast ==
    (\/ src_count # 1
     \/ ~out_writable
     \/ IntersectionArea(total_bounds(plots), RasterRect) = 0)
    => /\ pc \in {"start", "exit1"}
       /\ task = <<>>
       /\ all_results = <<>>
       /\ classified = {}

C7_Witness ==
    /\ pc = "exit1"
    /\ src_count = 1 /\ out_writable
    /\ IntersectionArea(total_bounds(plots), RasterRect) = 0

GroupPlots(g) == Range(spatial_groups[g].plots)

\* C8 as claimed: in a restarted run, the plots of a group that held a
\* complete result file when the run began are not classified again.
C8_CompleteGroupSkipped ==
    run > 1 =>
        \A g \in complete_at_start \cap (1..Len(spatial_groups)) :
            GroupPlots(g) \cap classified = {}

\* C8 as amended: in a restarted run no group is skipped.  A group that
\* held a complete result file when the run began is dispatched in list
\* order like every other group (no later group is taken before it), and
\* when its task is done all its plots were classified again in this run.
C8_CompleteGroupRerun ==
    (run > 1 /\ pc \in {"pool", "done"}) =>
        \A g \in complete_at_start \cap (1..Len(task)) :
            /\ \A h \in (g + 1)..Len(task) : task[h] # "pending" => task[g] # "pending"
            /\ task[g] = "done" => GroupPlots(g) \subseteq classified

C8_Witness ==
    /\ run > 1 /\ pc = "done"
    /\ Len(task) >= 2
    /\ \E g \in complete_at_start \cap (1..Len(task)) :
          task[g] = "done" /\ GroupPlots(g) \subseteq classified


(***************************************************************************)
(* Properties of process_spatial_group                                     *)
(***************************************************************************)
plots_group == spatial_groups[1].plots

ZeroedStats(rec) == rec.has_slope_data = FALSE /\ \A k \in ClassKeys : rec[k] = 0

\* C5: process_spatial_group returns exactly one record per plot of its
\* group, whatever failed on the way: len(results) = len(plots_group).
C5_OneRecordPerPlot ==
    (pc = "group" /\ grp.phase = "returned") => Len(grp.results) = Len(plots_group)

\* the positions of the group whose processing failed so far: the
\* classifier took its except branch, or the iteration ended in the handler
\* of line 832
FailedPositions ==
    grp.failed \cup { k \in 1..grp.pos : plots[plots_group[k] + 1].bad }

\* C6: in process_spatial_group the record of a plot whose processing
\* failed is zeroed (has_slope_data false, every class 0), and every plot
\* the loop has reached was passed to the classifier.
C6_FailedPlotZeroed ==
    pc = "group" =>
        /\ \A k \in FailedPositions :
              k <= Len(grp.results) /\ ZeroedStats(grp.results[k])
        /\ grp.classified = SubSeq(plots_group, 1, grp.pos)

\* number of records the checkpoint file of the group holds
CheckpointRows == IF grp.progress_file = <<>> THEN 0 ELSE Len(grp.progress_file[1])

\* C9: at every moment of a group's run, at most one checkpoint interval of
\* records (100 plots, 300 seconds) has been appended since the last
\* checkpoint write, and the checkpoint file holds, row by row, the records
\* computed so far.
C9_CheckpointCoversWork ==
    (pc = "group" /\ grp.phase = "loop") =>
        /\ Len(grp.results) - CheckpointRows <= SAVE_EVERY
        /\ grp.now - grp.last_save_time <= SAVE_INTERVAL
        /\ \A k \in 1..CheckpointRows :
              RowCarries(grp.progress_file[1][k], grp.results[k])

(***************************************************************************)
(* Properties of calculate_plot_statistics_windowed                        *)
(***************************************************************************)
\* the cells the call reads that hold data and whose pixel polygon shares
\* more than the noise floor with the plot
CellsAboveFloor ==
    LET window == get_valid_window(cl_bounds, <<RasterRows, RasterCols>>)
    IN  { rc \in ReadWindow(window, <<RasterRows, RasterCols>>) :
            /\ RasterData(slope_raster)[<<window.row_off + rc[1], window.col_off + rc[2]>>]
                  # NODATA
            /\ IntersectionArea(cl_plot, pixel_geom(window, rc)) >= 1 }

ClassSum(rec) == SumOver(ClassKeys, [k \in ClassKeys |-> rec[k]])

\* C11 as claimed: in every record with has_slope_data = true the four
\* class percentages sum to between 99 and 101.
C11_ClassSumNear100 ==
    (pc = "classify" /\ cl_stats # <<>> /\ cl_stats[1].has_slope_data) =>
        ClassSum(cl_stats[1]) \in 9900..10100

\* C11 as amended: in every record with has_slope_data = true the four
\* class percentages together with pct_slope_below_min sum to between 99
\* and 101; the four classes alone sum to that less the below-minimum share.
C11_BucketSumNear100 ==
    (pc = "classify" /\ cl_stats # <<>> /\ cl_stats[1].has_slope_data) =>
        /\ "pct_slope_below_min" \in DOMAIN cl_stats[1]
        /\ ClassSum(cl_stats[1]) + cl_stats[1].pct_slope_below_min \in 9900..10100

\* a record with data whose cells are partly below the lowest class and
\* partly inside a class
C11_Witness ==
    /\ pc = "classify" /\ cl_stats # <<>>
    /\ cl_stats[1].has_slope_data
    /\ cl_stats[1].pct_slope_below_min > 0
    /\ ClassSum(cl_stats[1]) > 0


Returned(op) == pc = "call" /\ call.op = op /\ call.out # <<>>

\* C12: a slope value v >= 0 adds its cell's weight to exactly one bucket,
\* and 10, 20, 25 and 35 go to the class whose lower bound they equal.
C12_ExactlyOneBucket ==
    Returned("classes") =>
        LET v == call.args[1]
            stats == call.out[1]
        IN  /\ Cardinality({ k \in BucketKeys : stats[k] = 10000 }) = 1
            /\ \A k \in BucketKeys : stats[k] \in {0, 10000}
            /\ \A i \in 1..Len(SLOPE_CLASSES) :
                   v = SLOPE_CLASSES[i].min_slope => stats[SLOPE_CLASSES[i].key] = 10000
            /\ stats.pct_slope_below_min = 10000 <=> v < 10

\* the boundary value 20 has been classified
C12_Witness ==
    /\ Returned("classes")
    /\ call.args[1] = 20
    /\ call.out[1].pct_slope_20_25 = 10000


\* footprint of raster cell <<row, col>> under the raster's transform
RasterCell(rc) ==
    Rect(rc[2] * PIXEL, RasterTop - (rc[1] + 1) * PIXEL,
         (rc[2] + 1) * PIXEL, RasterTop - rc[1] * PIXEL)

RasterCells == (0..(RasterRows - 1)) \X (0..(RasterCols - 1))

\* the raster cells that share area with the plot handed to the classifier
CellsUnder(plot) == { rc \in RasterCells : IntersectionArea(plot, RasterCell(rc)) > 0 }

\* the plot lies half on a cell valued a and half on a cell valued b
SplitEvenly(plot, a, b) ==
    \E ca, cb \in CellsUnder(plot) :
        /\ CellsUnder(plot) = {ca, cb}
        /\ RasterData(slope_raster)[ca] = a
        /\ RasterData(slope_raster)[cb] = b
        /\ 2 * IntersectionArea(plot, RasterCell(ca)) = RectArea(plot)
        /\ 2 * IntersectionArea(plot, RasterCell(cb)) = RectArea(plot)

\* C13: a plot split evenly between a cell valued 12 and a cell valued 22
\* gets 50.00 in class 10-20 and 50.00 in class 20-25.
C13_EvenSplitHalves ==
    (pc = "classify" /\ cl_stats # <<>> /\ ~cl_plot.bad /\ SplitEvenly(cl_plot, 12, 22)) =>
        /\ cl_stats[1].has_slope_data
        /\ cl_stats[1].pct_slope_10_20 = 5000
        /\ cl_stats[1].pct_slope_20_25 = 5000

\* the plot lies inside the footprint of one raster cell whose value is in [10, 20)
InsideOneCell(plot) ==
    /\ RectArea(plot) > 0
    /\ \E rc \in RasterCells :
          /\ RasterCell(rc).x0 <= plot.x0 /\ plot.x1 <= RasterCell(rc).x1
          /\ RasterCell(rc).y0 <= plot.y0 /\ plot.y1 <= RasterCell(rc).y1
          /\ RasterData(slope_raster)[rc] \in 10..19

\* C14: a plot wholly inside one raster cell valued in [10, 20) gets 100.00
\* in class 10-20, 0 in every other class and has_slope_data = true.
C14_OneCellAllInClass ==
    (pc = "classify" /\ cl_stats # <<>> /\ ~cl_plot.bad /\ InsideOneCell(cl_plot)) =>
        /\ cl_stats[1].has_slope_data
        /\ cl_stats[1].pct_slope_10_20 = 10000
        /\ \A k \in ClassKeys \ {"pct_slope_10_20"} : cl_stats[1][k] = 0


\* C15: for all bounds, also bounds partly or wholly outside the raster,
\* the window returned by get_valid_window lies fully within the raster.
C15_WindowWithinRaster ==
    Returned("window") =>
        LET w == call.out[1]
        IN  /\ 0 <= w.col_off /\ w.col_off + w.width <= RasterCols
            /\ 0 <= w.row_off /\ w.row_off + w.height <= RasterRows

Degenerate(bounds) == bounds[1] = bounds[3] \/ bounds[2] = bounds[4]

\* C16 as claimed: for bounds of zero width or zero height get_valid_window
\* returns a 1x1 window.
C16_DegenerateGivesOneByOne ==
    (Returned("window") /\ Degenerate(call.args[1])) =>
        call.out[1].width = 1 /\ call.out[1].height = 1

\* C16 as amended: for bounds of zero width or zero height get_valid_window
\* returns a window of at least one column and one row, and for such bounds
\* inside the raster the window covers every raster cell within 10 pixels
\* of the bounds.
C16_DegenerateGivesWindow ==
    (Returned("window") /\ Degenerate(call.args[1])) =>
        LET w == call.out[1]
            b == call.args[1]
            reach == PIXEL * WINDOW_BUFFER_PIXELS
        IN  /\ w.width >= 1 /\ w.height >= 1
            /\ RectIntersects(Rect(b[1], b[2], b[3], b[4]), RasterRect) =>
                  /\ w.col_off * PIXEL <= Max(0, b[1] - reach)
                  /\ (w.col_off + w.width) * PIXEL >= Min(RasterRight, b[3] + reach)
                  /\ (w.row_off + w.height) * PIXEL >= Min(RasterTop, RasterTop - b[2] + reach)
                  /\ w.row_off * PIXEL <= Max(0, RasterTop - b[4] - reach)

\* a window returned for a zero-width line inside the raster, wider than 1
C16_Witness ==
    /\ Returned("window")
    /\ call.args[1][1] = call.args[1][3]
    /\ RectIntersects(Rect(call.args[1][1], call.args[1][2], call.args[1][3], call.args[1][4]),
                      RasterRect)
    /\ call.out[1].width > 1


\* C17: calculate_ewma returns alpha * current + (1 - alpha) * previous when
\* a previous value exists, 0 included, and current when there is none;
\* previous 10, current 20 and alpha 0.1 give 11.0.
C17_EwmaFormula ==
    Returned("ewma") =>
        LET current == call.args[1]
            previous == call.args[2]
            alpha == call.args[3]
            out == call.out[1]
        IN  /\ previous = <<>> => out = current
            /\ previous # <<>> => 10 * out = alpha * current + (10 - alpha) * previous[1]
            /\ (current = 200 /\ previous = << 100 >> /\ alpha = 1) => out = 110

\* a call with a previous value of 0 and a positive current rate
C17_Witness ==
    /\ Returned("ewma")
    /\ call.args[2] = << 0 >>
    /\ call.args[1] = 200 /\ call.args[3] = 1
    /\ call.out[1] = 20


\* C18: no two progress reports, of the same worker or of different workers,
\* are printed less than one second apart.
C18_ReportsOneSecondApart ==
    pc = "progress" =>
        \A i, j \in 1..Len(prog.reports) :
            i < j => prog.reports[j].time - prog.reports[i].time >= TICKS_PER_SECOND

\* the latest processed count and the plot count summed over every group
\* started so far on any worker
StartedSum(p, field) ==
    SumOver(1..NumWorkers, [w \in 1..NumWorkers |-> TrackerSum(p.tracker[w], field)])

\* C19: the totals of every report printed equal the sums over every group
\* started so far on any worker of the pool.
C19_ReportSumsEveryGroup ==
    [][(pc = "progress" /\ Len(prog'.reports) > Len(prog.reports)) =>
          LET r == prog'.reports[Len(prog'.reports)]
          IN  /\ r.total_processed = StartedSum(prog', "processed")
              /\ r.total_plots = StartedSum(prog', "total")]_vars


\* C20: for each region the rolled-up percentage of each class is the mean
\* of the member percentages weighted by shape_area_m2, and the rolled-up
\* class area is the sum over the members of area x percentage / 100.
C20_RollupAreaWeighted ==
    Returned("region") =>
        LET df == call.args[1]
            out == call.out[1]
        IN  \A g \in DOMAIN out : \A k \in BucketKeys :
                LET members == { i \in DOMAIN df : df[i].region = g }
                    weighted == WeightedMean(df, members, k)
                IN  /\ out[g].pct[k].num * weighted.den = weighted.num * out[g].pct[k].den
                    /\ out[g].area_m2[k].num * 100 = weighted.num * out[g].area_m2[k].den


\* sum of the class areas of a row of the vector variant
SumClassAreas(row) == SumOver(ShapeClassNames, row.area_m2)

\* C21: after process_plot_group every plot with has_slope_data = true has
\* class areas that are not negative and sum to total_area_m2 within 5 % of it.
C21_ClassAreasSumToTotal ==
    Returned("plot_group") =>
        \A i \in DOMAIN call.out[1] :
            LET row == call.out[1][i]
                diff == IF SumClassAreas(row) > row.total_area_m2
                        THEN SumClassAreas(row) - row.total_area_m2
                        ELSE row.total_area_m2 - SumClassAreas(row)
            IN  row.has_slope_data =>
                    /\ \A n \in ShapeClassNames : row.area_m2[n] >= 0
                    /\ 100 * diff <= 5 * row.total_area_m2

\* C22: a plot whose geometry cannot be repaired is flagged geometry_valid
\* = false, keeps has_slope_data = false and 0 in every class area and
\* percentage, and the plots after it in the group are still processed.
C22_InvalidPlotSkipped ==
    Returned("plot_group") =>
        LET group_in == call.args[1]
            out == call.out[1]
        IN  /\ DOMAIN out = DOMAIN group_in
            /\ \A i \in DOMAIN group_in :
                   IF group_in[i].geom = "unfixable"
                   THEN /\ ~out[i].geometry_valid
                        /\ ~out[i].has_slope_data
                        /\ \A n \in ShapeClassNames :
                               out[i].area_m2[n] = 0 /\ out[i].percent[n] = 0
                   ELSE /\ out[i].geometry_valid
                        /\ out[i].total_area_m2 = RoundTenth(group_in[i].area)
                        /\ out[i].has_slope_data =
                               (\E z \in DOMAIN group_in[i].zones :
                                    group_in[i].zones[z].area > 0)

\* a group whose first plot cannot be repaired and whose second plot has
\* been given its statistics
C22_Witness ==
    /\ Returned("plot_group")
    /\ Len(call.args[1]) = 2
    /\ call.args[1][1].geom = "unfixable"
    /\ ~call.out[1][1].geometry_valid
    /\ call.out[1][2].has_slope_data
    /\ call.out[1][2].area_m2["slope_10_20"] = 10000

\* C30: the intersection area of a plot with one slope zone is added to
\* exactly one slope class, whatever the zone's interval.
C30_ZoneInOneClass ==
    Returned("plot_group") =>
        \A i \in DOMAIN call.args[1] :
            LET plot == call.args[1][i]
                row == call.out[1][i]
            IN  (plot.geom # "unfixable" /\ Len(plot.zones) = 1 /\ plot.zones[1].area > 0) =>
                    /\ Cardinality({ n \in ShapeClassNames :
                                        ZoneInClass(plot.zones[1], ClassNamed(n)) }) = 1
                    /\ Cardinality({ n \in ShapeClassNames : row.area_m2[n] > 0 }) = 1


\* the grid cells whose buffered box the plot intersects, as <<i, j>> with
\* i the step along x and j the step along y
CellsOfPlot(gdf, plot) ==
    { c \in (0..(GRID_SIZE - 1)) \X (0..(GRID_SIZE - 1)) :
        Intersects(plot, BufferedCell(CellBounds(CommonExtent(gdf), GRID_SIZE, c[1], c[2]))) }

\* the bounds of the group that holds label l
BoundsOfLabel(groups, l) ==
    { groups[g].bounds : g \in { h \in DOMAIN groups : l \in Range(groups[h].plots) } }

\* C23 as claimed: a plot is assigned to the first of its cells in row-major
\* order, all cells of one row (one j) coming before the next row.
C23_FirstCellRowMajor ==
    Returned("index") =>
        LET gdf == call.args[1]
        IN  \A l \in Labels(gdf) :
                LET cells == CellsOfPlot(gdf, gdf[l + 1])
                    first == CHOOSE c \in cells : \A d \in cells :
                                 c[2] * GRID_SIZE + c[1] <= d[2] * GRID_SIZE + d[1]
                IN  cells # {} =>
                        BoundsOfLabel(call.out[1], l)
                            = { CellBounds(CommonExtent(gdf), GRID_SIZE, first[1], first[2]) }

\* C23 as amended: a plot is assigned to the first of its cells in the order
\* of the loops, all cells of one i (one step along x) coming before the
\* cells of the next i, and within one i from the lowest j (lowest y) up.
C23_FirstCellLoopOrder ==
    Returned("index") =>
        LET gdf == call.args[1]
        IN  \A l \in Labels(gdf) :
                LET cells == CellsOfPlot(gdf, gdf[l + 1])
                    first == CHOOSE c \in cells : \A d \in cells :
                                 c[1] * GRID_SIZE + c[2] <= d[1] * GRID_SIZE + d[2]
                IN  cells # {} =>
                        BoundsOfLabel(call.out[1], l)
                            = { CellBounds(CommonExtent(gdf), GRID_SIZE, first[1], first[2]) }

\* an L-shaped plot that intersects cells (0, 1) and (1, 0) but not (0, 0)
\* has been assigned to a group
C23_Witness ==
    /\ Returned("index")
    /\ \E l \in Labels(call.args[1]) :
          /\ <<0, 1>> \in CellsOfPlot(call.args[1], call.args[1][l + 1])
          /\ <<1, 0>> \in CellsOfPlot(call.args[1], call.args[1][l + 1])
          /\ <<0, 0>> \notin CellsOfPlot(call.args[1], call.args[1][l + 1])
          /\ BoundsOfLabel(call.out[1], l) # {}


\* C24: for every candidate cell of the window, the polygon intersected
\* with the plot is the footprint of that cell, from its upper left corner
\* to its lower right corner under the window transform.
C24_PixelPolygonIsFootprint ==
    (pc = "classify" /\ cl_stats # <<>> /\ ~cl_plot.bad) =>
        LET src_shape == <<RasterRows, RasterCols>>
            window == get_valid_window(cl_bounds, src_shape)
        IN  \A rc \in ReadWindow(window, src_shape) :
                geometry_mask(cl_plot, window, rc) =>
                    pixel_geom(window, rc) = CellFootprint(window, rc)


\* C25: a group's run goes from entry to the loop to its return and never
\* back; its complete file is written at most once, by the step that leaves
\* the loop after every plot of the group has been iterated and has a
\* record, and never by a run that went through the group-level handler;
\* no checkpoint is written once the run has left the loop or the complete
\* file exists.
C25_GroupLifecycle ==
    [][pc = "group" =>
            /\ <<grp.phase, grp'.phase>> \in
                   { <<"entry", "loop">>, <<"loop", "loop">>,
                     <<"entry", "returned">>, <<"loop", "returned">> }
            /\ grp'.complete_file # grp.complete_file =>
                   /\ grp.complete_file = <<>>
                   /\ grp.phase = "loop" /\ grp'.phase = "returned"
                   /\ ~grp'.raised
                   /\ grp.pos = Len(plots_group)
                   /\ Len(grp.results) >= Len(plots_group)
            /\ grp'.raised => grp'.complete_file = <<>>
            /\ (grp'.saves # grp.saves \/ grp'.progress_file # grp.progress_file) =>
                   /\ grp.phase = "loop" /\ grp'.phase = "loop"
                   /\ grp'.complete_file = <<>>]_vars

\* a run that wrote a checkpoint and then its complete file
C25_Witness ==
    /\ pc = "group"
    /\ grp.phase = "returned"
    /\ grp.saves > 0
    /\ grp.progress_file # <<>>
    /\ grp.complete_file # <<>>


\* the frames of the group's checkpoint file and final file, when written
GroupFiles == Range(grp.progress_file) \cup Range(grp.complete_file)

\* C26: in the group's checkpoint file and in its final file, the k-th row
\* carries the record the classifier computed for the k-th plot of the
\* group, whatever the index labels of the group's plots (runs in which
\* every write succeeded).
C26_RowCarriesOwnRecord ==
    (pc = "group" /\ grp.failed = {} /\ ~grp.raised) =>
        \A file \in GroupFiles :
            \A k \in 1..Len(file) :
                /\ file[k].label = plots_group[k]
                /\ RowCarries(file[k],
                              PlotStats(plots, plots_group, RasterData(slope_raster),
                                        spatial_groups[1].bounds, k))


\* C27: whenever update_progress has updated a group's smoothed rate, the
\* instantaneous rate it fed to the average is the number of plots the
\* group processed since its previous rate update divided by the time
\* elapsed since that update, and is positive when plots were processed in
\* between.
C27_RateIsPlotsOverTime ==
    pc = "progress" =>
        \A w \in 1..NumWorkers :
            \A g \in DOMAIN prog.tracker[w].group_progress :
                \A fed \in Range(prog.tracker[w].group_progress[g].fed) :
                    /\ fed.ticks > 0
                    /\ fed.current_rate = (fed.plots * 10 * TICKS_PER_SECOND) \div fed.ticks
                    /\ fed.plots > 0 => fed.current_rate > 0


\* the raster cells <<row, col>> whose footprint shares area with the plot
RasterCellsOf(plot) ==
    { rc \in (0..(RasterRows - 1)) \X (0..(RasterCols - 1)) :
        IntersectionArea(plot, Rect(rc[2] * PIXEL, RasterTop - (rc[1] + 1) * PIXEL,
                                    (rc[2] + 1) * PIXEL, RasterTop - rc[1] * PIXEL)) > 0 }

\* the raster cells <<row, col>> of a window
WindowCells(window) ==
    { rc \in (0..(RasterRows - 1)) \X (0..(RasterCols - 1)) :
        /\ window.row_off <= rc[1] /\ rc[1] < window.row_off + window.height
        /\ window.col_off <= rc[2] /\ rc[2] < window.col_off + window.width }

\* C28: for every plot of every spatial group, every raster cell that
\* intersects the plot lies inside the window read for the group, the
\* window get_valid_window derives from the group's stored cell bounds.
C28_WindowCoversPlot ==
    \A g \in 1..Len(spatial_groups) :
        \A l \in Range(spatial_groups[g].plots) :
            RasterCellsOf(plots[l + 1]) \subseteq
                WindowCells(get_valid_window(spatial_groups[g].bounds,
                                             <<RasterRows, RasterCols>>))


\* the fields of a statistics record
RecordFields == {"shape_area_m2", "has_slope_data", "pct_slope_below_min"} \cup ClassKeys

\* C29: every record process_spatial_group holds for a plot, whatever the
\* outcome of the plot (data, no data, classifier error, zero record of the
\* executor), has the area, the data flag, the four class percentages and
\* pct_slope_below_min.
C29_RecordsHaveAllFields ==
    pc = "group" =>
        \A k \in 1..Len(grp.results) : RecordFields \subseteq DOMAIN grp.results[k]

=============================================================================
